---- MODULE Spec2Model ----
(***************************************************************************)
(* The contact endpoint (netlify/functions/contact.ts, the last file of    *)
(* src/unnamed/part_000) as a state machine: a blob store, a millisecond   *)
(* clock and a pool of handler invocations that run concurrently and       *)
(* interleave at every await on the store.                                 *)
(* Its two clients are modelled with it: the intake form (ContactForm.tsx)  *)
(* that posts to it, and the admin dashboard (AdminDashboard, the first    *)
(* file of src/unnamed/part_000) that fetches from it, edits statuses in   *)
(* its own memory and exports the filtered list as CSV.                    *)
(***************************************************************************)
EXTENDS Integers, Sequences, FiniteSets, TLC

\* ------------------------------------------------------------------ bounds
MaxRequests == 3    \* handler invocations started in one behaviour
MaxTicks == 1       \* milliseconds the clock may advance
ClockStart == 999   \* Date.now() at the start; the ISO seconds field rolls over

Invocations == {"h1", "h2"}
\* The suffixes Math.random().toString(36).substr(2, 9) may give.
RandomSuffixes == {0, 1}

\* ------------------------------------------------------- JavaScript values
\* A JSON value found in a field: undefined (absent), a string (a sequence of
\* characters) or an object.  The objects of the input set are of the shape
\* {"toString": 1}: truthy, serialisable, but not convertible to a string.
Undef == [t |-> "undefined", s |-> <<>>]
Str(chars) == [t |-> "string", s |-> chars]
Obj == [t |-> "object", s |-> <<>>]

\* JavaScript truthiness, the operand of `!` in the two validation tests.
TruthyEmptyOk(v) == v.t # "undefined"
Truthy(v) ==
    CASE v.t = "undefined" -> FALSE
      [] v.t = "string" -> v.s # <<>>
      [] OTHER -> TRUE

\* o?.f : undefined when o is undefined or null, o.f otherwise.
OptGet(o, f) == IF o.t = "object" THEN o[f] ELSE Undef

\* `${v}` : ToString throws a TypeError on an object without a callable
\* toString whose valueOf returns the object itself.
ToStringThrows(v) == v.t = "object"

NoContactInfo ==
    [t |-> "undefined", name |-> Undef, email |-> Undef, company |-> Undef,
     phone |-> Undef]
NoProjectDetails ==
    [t |-> "undefined", projectType |-> Undef, description |-> Undef,
     timeline |-> Undef, budget |-> Undef, requirements |-> Undef]

\* The value JSON.parse returns: null, or an object with the top-level keys
\* the handler or a client may name.
JsonObject(ci, pd, id, ts, st, nt) ==
    [t |-> "object", contactInfo |-> ci, projectDetails |-> pd,
     id |-> id, timestamp |-> ts, status |-> st, notes |-> nt]
EmptyObject ==
    JsonObject(NoContactInfo, NoProjectDetails, Undef, Undef, Undef, Undef)
JsonNull == [EmptyObject EXCEPT !.t = "null"]

\* event.body : absent/empty, text that is not JSON, or the text of a value.
EmptyText == [kind |-> "empty", v |-> EmptyObject]
MalformedText == [kind |-> "malformed", v |-> EmptyObject]
JsonText(v) == [kind |-> "json", v |-> v]

\* JSON.parse(event.body || '{}')
JSONparseThrows(text) == text.kind = "malformed"
JSONparse(text) == IF text.kind = "json" THEN text.v ELSE EmptyObject
\* const { contactInfo, projectDetails } = body throws on null
DestructureThrows(body) == body.t = "null"

\* JSON.stringify of a submission, and store.get(key, {type: 'json'}).
JSONstringify(sub) == [json |-> sub]
JSONread(blob) == blob.json

\* ------------------------------------------------------------- submissions
\* new Date(ms).toISOString() and new Date(iso).getTime()
toISOString(ms) == [sec |-> ms \div 1000, msec |-> ms % 1000]
getTime(iso) == iso.sec * 1000 + iso.msec

\* `sub_${Date.now()}_${Math.random().toString(36).substr(2, 9)}`
MakeIdNoRandom(now, rnd) == [prefix |-> "sub_", time |-> now, rand |-> 0]
MakeId(now, rnd) == [prefix |-> "sub_", time |-> now, rand |-> rnd]
NoId == [prefix |-> "", time |-> 0, rand |-> 0]

StatusNew == Str(<<"n", "e", "w">>)
StatusReviewed == Str(<<"r", "e", "v", "i", "e", "w", "e", "d">>)
StatusResponded == Str(<<"r", "e", "s", "p", "o", "n", "d", "e", "d">>)

CreateSubmissionSpread(body, now, rnd) ==
    [id |-> MakeId(now, rnd),
     timestamp |-> toISOString(now),
     contactInfo |-> body.contactInfo,
     projectDetails |-> body.projectDetails,
     status |-> IF Truthy(body.status) THEN body.status ELSE StatusNew,
     notes |-> body.notes]
\* The submission object: id and timestamp from the clock (both read in the
\* same millisecond), contactInfo and projectDetails as the client sent
\* them, status 'new', no notes.
CreateSubmission(body, now, rnd) ==
    [id |-> MakeId(now, rnd),
     timestamp |-> toISOString(now),
     contactInfo |-> body.contactInfo,
     projectDetails |-> body.projectDetails,
     status |-> StatusNew,
     notes |-> Undef]
NoSubmission == CreateSubmission(EmptyObject, 0, 0)

ContactMissingNoCompany(body) ==
    \/ ~Truthy(OptGet(body.contactInfo, "name"))
    \/ ~Truthy(OptGet(body.contactInfo, "email"))
ContactMissing(body) ==
    \/ ~Truthy(OptGet(body.contactInfo, "name"))
    \/ ~Truthy(OptGet(body.contactInfo, "email"))
    \/ ~Truthy(OptGet(body.contactInfo, "company"))
ProjectMissing(body) ==
    \/ ~Truthy(OptGet(body.projectDetails, "projectType"))
    \/ ~Truthy(OptGet(body.projectDetails, "description"))
    \/ ~Truthy(OptGet(body.projectDetails, "timeline"))

\* ------------------------------------------------------------ notification
\* The template interpolates every field; requirements only when truthy.
TemplateThrows(sub) ==
    \/ \E f \in {"name", "email", "company", "phone"} :
          ToStringThrows(sub.contactInfo[f])
    \/ \E f \in {"projectType", "timeline", "budget", "description"} :
          ToStringThrows(sub.projectDetails[f])
    \/ /\ Truthy(sub.projectDetails.requirements)
       /\ ToStringThrows(sub.projectDetails.requirements)

sendEmailNotificationRethrow(sub) ==
    [threw |-> TemplateThrows(sub), value |-> TRUE]
\* try { build and log the email; return true } catch { return false }
sendEmailNotification(sub) ==
    [threw |-> FALSE, value |-> ~TemplateThrows(sub)]

\* ---------------------------------------------------------------- responses
CorsHeaders ==
    {<<"Access-Control-Allow-Origin", "*">>,
     <<"Access-Control-Allow-Headers", "Content-Type">>,
     <<"Access-Control-Allow-Methods", "GET, POST, OPTIONS">>}
JsonHeaders == CorsHeaders \cup {<<"Content-Type", "application/json">>}

Payload(kind, error, id, list) ==
    [kind |-> kind, error |-> error, success |-> kind = "success",
     id |-> id, list |-> list]
EmptyBody == Payload("empty", "", NoId, <<>>)
ErrorBody(msg) == Payload("error", msg, NoId, <<>>)
SuccessBody(id) == Payload("success", "", id, <<>>)
ListBody(list) == Payload("list", "", NoId, list)

Response(code, headers, body) ==
    [statusCode |-> code, headers |-> headers, body |-> body]
NoResponse == Response(0, {}, EmptyBody)

\* ------------------------------------------------------------------- state
VARIABLES
    store,    \* the blob store 'contact-submissions': key -> JSON text
    clock,    \* Date.now()
    inv,      \* the handler invocations: position, locals, response
    served,   \* invocations started so far
    form,     \* the intake form (ContactForm)
    dash,     \* the admin dashboard (AdminDashboard, SubmissionDetail)
    csv       \* the file Export CSV downloaded

vars == <<store, clock, inv, served, form, dash, csv>>
clients == <<form, dash, csv>>
service == <<store, clock, inv, served>>

\* An invocation.  pc is the await it is suspended at ("idle" before its
\* event, "done" after its return).  now and rnd are the values Date.now()
\* and Math.random() gave it; wrote, notified and storeFailed record what
\* its calls of store.set, sendEmailNotification and the store did.
IdleInvocation ==
    [pc |-> "idle", method |-> "", text |-> EmptyText, now |-> 0, rnd |-> 0,
     submission |-> NoSubmission, keys |-> <<>>, data |-> <<>>,
     resp |-> NoResponse, wrote |-> FALSE, notified |-> "no",
     storeFailed |-> FALSE]
Started(method, text) ==
    [IdleInvocation EXCEPT !.method = method, !.text = text]
\* return: the locals of the GET branch are gone, the response is out.
Return(i, resp) ==
    [i EXCEPT !.pc = "done", !.resp = resp, !.keys = <<>>, !.data = <<>>]

StorePutOnly(s, key, value) == [k \in {key} |-> value]
\* store.set(key, value): last writer wins.
StorePut(s, key, value) ==
    [k \in DOMAIN s \cup {key} |-> IF k = key THEN value ELSE s[k]]

\* The listings store.list() may return: the keys, in any order.
Listings(s) ==
    {l \in [1..Cardinality(DOMAIN s) -> DOMAIN s] :
        \A i, j \in DOMAIN l : l[i] = l[j] => i = j}

\* ------------------------------------------------------------------ inputs
GoodEmail == <<"a", "@", "b", ".", "c">>
NoDotEmail == <<"a", "@", "b">>
NoAtEmail == <<"a", "b", ".", "c">>
Blank == <<" ">>

ValidContact ==
    [t |-> "object", name |-> Str(<<"J">>), email |-> Str(GoodEmail),
     company |-> Str(<<"T">>), phone |-> Undef]
ValidProject ==
    [t |-> "object", projectType |-> Str(<<"S">>), description |-> Str(<<"d">>),
     timeline |-> Str(<<"3">>), budget |-> Undef, requirements |-> Undef]

Plain(ci, pd) == JsonText(JsonObject(ci, pd, Undef, Undef, Undef, Undef))
ValidText == Plain(ValidContact, ValidProject)
\* The valid body with top-level id, timestamp, status and notes added.
ForgedText ==
    JsonText(JsonObject(ValidContact, ValidProject, Str(<<"x">>), Str(<<"0">>),
                        Str(<<"r">>), Str(<<"n">>)))
\* company is {"toString": 1}: the email template cannot interpolate it.
ObjectCompanyText == Plain([ValidContact EXCEPT !.company = Obj], ValidProject)
NoCompanyText == Plain([ValidContact EXCEPT !.company = Undef], ValidProject)

BadValues == {Undef, Str(<<>>), Str(Blank)}
ContactVariants ==
    {NoContactInfo,
     [ValidContact EXCEPT !.email = Str(NoDotEmail)],
     [ValidContact EXCEPT !.email = Str(NoAtEmail)]}
    \cup {[ValidContact EXCEPT ![f] = v] :
            f \in {"name", "email", "company"}, v \in BadValues}
ProjectVariants ==
    {NoProjectDetails, [ValidProject EXCEPT !.requirements = Obj]}
    \cup {[ValidProject EXCEPT ![f] = v] :
            f \in {"projectType", "description", "timeline"}, v \in BadValues}

\* The bodies of the concurrent specification, and those of InputsSpec.
CoreBodies ==
    {MalformedText, NoCompanyText, ValidText, ForgedText, ObjectCompanyText}
Bodies ==
    {EmptyText, MalformedText, JsonText(JsonNull), ValidText, ForgedText,
     ObjectCompanyText}
    \cup {Plain(ci, ValidProject) : ci \in ContactVariants}
    \cup {Plain(ValidContact, pd) : pd \in ProjectVariants}
OtherMethods == {"PUT", "DELETE"}

\* ------------------------------------------------------- the intake form
\* The form's strings are sequences of characters.
Whitespace == {" ", "\t", "\n"}
RECURSIVE trimStart(_)
trimStart(s) ==
    IF s # <<>> /\ Head(s) \in Whitespace THEN trimStart(Tail(s)) ELSE s
RECURSIVE trimEnd(_)
trimEnd(s) ==
    IF s # <<>> /\ s[Len(s)] \in Whitespace
    THEN trimEnd(SubSeq(s, 1, Len(s) - 1))
    ELSE s
trim(s) == trimEnd(trimStart(s))

\* /^[^\s@]+@[^\s@]+\.[^\s@]+$/.test(s)
NoSpaceNoAt(s, a, b) ==
    a <= b /\ \A n \in a..b : s[n] \notin Whitespace \cup {"@"}
EmailRegexTest(s) ==
    \E i, j \in DOMAIN s :
        /\ i < j /\ s[i] = "@" /\ s[j] = "."
        /\ NoSpaceNoAt(s, 1, i - 1)
        /\ NoSpaceNoAt(s, i + 1, j - 1)
        /\ NoSpaceNoAt(s, j + 1, Len(s))

BlankFormData ==
    [contactInfo |-> [name |-> <<>>, email |-> <<>>, company |-> <<>>,
                      phone |-> <<>>],
     projectDetails |-> [projectType |-> <<>>, description |-> <<>>,
                         timeline |-> <<>>, budget |-> <<>>,
                         requirements |-> <<>>]]

\* The errors object: the keys it has, each with its message.
NoErrors == [k \in {} |-> ""]
SubmitError == [k \in {"submit"} |-> "Failed to submit form. Please try again."]
\* errors[field], tested for truthiness
HasError(errors, field) == field \in DOMAIN errors /\ errors[field] # ""
\* { ...prev, [field]: '' }
ClearError(errors, field) ==
    [k \in DOMAIN errors \cup {field} |-> IF k = field THEN "" ELSE errors[k]]

\* validateContactInfo: the newErrors it builds.
ContactErrors(fd) ==
    LET ci == fd.contactInfo
        bad == {k \in {"name", "email", "company"} : trim(ci[k]) = <<>>}
                 \cup (IF EmailRegexTest(ci.email) THEN {} ELSE {"email"})
    IN  [k \in bad |->
            CASE k = "name" -> "Name is required"
              [] k = "email" ->
                   IF trim(ci.email) = <<>> THEN "Email is required"
                   ELSE "Please enter a valid email address"
              [] k = "company" -> "Company name is required"]

\* validateProjectDetails: the newErrors it builds.
ProjectErrors(fd) ==
    LET pd == fd.projectDetails
        bad == {k \in {"projectType", "timeline"} : pd[k] = <<>>}
                 \cup (IF trim(pd.description) = <<>> THEN {"description"} ELSE {})
    IN  [k \in bad |->
            CASE k = "projectType" -> "Please select a project type"
              [] k = "description" -> "Project description is required"
              [] k = "timeline" -> "Please select a timeline"]

\* The form's state.  inFlight counts the fetch calls of handleSubmit that
\* have not settled and delivered tells whether the request reached the
\* handler; storedBefore is the number of records the store held when the
\* form was last blank.
InitialForm ==
    [currentStep |-> "contact", isLoading |-> FALSE, isSubmitted |-> FALSE,
     formData |-> BlankFormData, errors |-> NoErrors,
     inFlight |-> 0, delivered |-> FALSE, storedBefore |-> 0]

\* JSON.stringify(formData), as the handler's JSON.parse reads it.
FormText(fd) ==
    Plain([t |-> "object",
           name |-> Str(fd.contactInfo.name),
           email |-> Str(fd.contactInfo.email),
           company |-> Str(fd.contactInfo.company),
           phone |-> Str(fd.contactInfo.phone)],
          [t |-> "object",
           projectType |-> Str(fd.projectDetails.projectType),
           description |-> Str(fd.projectDetails.description),
           timeline |-> Str(fd.projectDetails.timeline),
           budget |-> Str(fd.projectDetails.budget),
           requirements |-> Str(fd.projectDetails.requirements)])

\* ----------------------------------------------------- the admin dashboard
\* error: null, or the message of the caught Error.
NoError == [t |-> "null", message |-> ""]
ErrorOf(message) == [t |-> "string", message |-> message]

FilterAll == Str(<<"a", "l", "l">>)
Filters == {FilterAll, StatusNew, StatusReviewed, StatusResponded}

\* The state of AdminDashboard and of its SubmissionDetail child.  mounted
\* tells whether the effect that fetches has run; inFlight and delivered
\* describe the fetch of fetchSubmissions as for the form; selected is
\* selectedSubmission (null when has is FALSE); detail is the child's notes
\* state while the child is mounted.
InitialDash ==
    [mounted |-> FALSE, submissions |-> <<>>, loading |-> TRUE,
     error |-> NoError,
     selected |-> [has |-> FALSE, sub |-> NoSubmission],
     filter |-> FilterAll,
     inFlight |-> 0, delivered |-> FALSE,
     detail |-> [mounted |-> FALSE, notes |-> <<>>]]

\* The file the last Export CSV click downloaded, with the submissions and
\* the filter it was made from.
NoCsv ==
    [made |-> FALSE, submissions |-> <<>>, filter |-> FilterAll,
     threw |-> FALSE, content |-> <<>>]

Init ==
    /\ store = << >>
    /\ clock = ClockStart
    /\ inv = [h \in Invocations |-> IdleInvocation]
    /\ served = 0
    /\ form = InitialForm
    /\ dash = InitialDash
    /\ csv = NoCsv

\* One invocation at a time: the requests of a single client that awaits
\* each response.
InitInputs ==
    /\ store = << >>
    /\ clock = ClockStart
    /\ inv = [h \in {"h1"} |-> IdleInvocation]
    /\ served = 0
    /\ form = InitialForm
    /\ dash = InitialDash
    /\ csv = NoCsv

\* ----------------------------------------------------------------- actions
Free(h) == inv[h].pc \in {"idle", "done"}
\* The platform hands an event to the first free invocation: h2 runs only
\* beside a busy h1.
CanStart(h) ==
    /\ h \in DOMAIN inv
    /\ Free(h)
    /\ h = "h2" => ~Free("h1")
    /\ served < MaxRequests

\* A millisecond passes.
Tick ==
    /\ clock < ClockStart + MaxTicks
    /\ clock' = clock + 1
    /\ UNCHANGED <<store, inv, served>>

\* OPTIONS: the preflight answer.
OptionsOutcome ==
    Return(Started("OPTIONS", EmptyText), Response(200, CorsHeaders, EmptyBody))
Options(h) ==
    /\ CanStart(h)
    /\ inv' = [inv EXCEPT ![h] = OptionsOutcome]
    /\ served' = served + 1
    /\ UNCHANGED <<store, clock>>

\* Any method but OPTIONS, GET and POST.
MethodNotAllowedBare(m) ==
    Return(Started(m, EmptyText), Response(405, {}, ErrorBody("Method not allowed")))
MethodNotAllowedOutcome(m) ==
    Return(Started(m, EmptyText),
           Response(405, CorsHeaders, ErrorBody("Method not allowed")))
MethodNotAllowed(h, m) ==
    /\ CanStart(h)
    /\ inv' = [inv EXCEPT ![h] = MethodNotAllowedOutcome(m)]
    /\ served' = served + 1
    /\ UNCHANGED <<store, clock>>

\* The catch of the POST branch.
ProcessFailed(i) ==
    Return(i, Response(500, CorsHeaders,
                       ErrorBody("Failed to process submission")))

\* POST up to its first await: parse, validate, build the submission and
\* call store.set.
PostOutcome(text, now, rnd) ==
    IF JSONparseThrows(text) \/ DestructureThrows(JSONparse(text))
    THEN ProcessFailed(Started("POST", text))
    ELSE IF ContactMissing(JSONparse(text))
    THEN Return(Started("POST", text),
                Response(400, CorsHeaders,
                         ErrorBody("Missing required contact information")))
    ELSE IF ProjectMissing(JSONparse(text))
    THEN Return(Started("POST", text),
                Response(400, CorsHeaders,
                         ErrorBody("Missing required project details")))
    ELSE [Started("POST", text) EXCEPT
            !.pc = "set", !.now = now, !.rnd = rnd,
            !.submission = CreateSubmission(JSONparse(text), now, rnd)]

Post(h, text) ==
    /\ CanStart(h)
    /\ \E rnd \in RandomSuffixes :
          inv' = [inv EXCEPT ![h] = PostOutcome(text, clock, rnd)]
    /\ served' = served + 1
    /\ UNCHANGED <<store, clock>>

\* The rest of the POST branch once store.set has resolved:
\* await sendEmailNotification(submission), then return 200.
AfterSet(i) ==
    LET sent == sendEmailNotification(i.submission)
    IN  IF sent.threw
        THEN ProcessFailed([i EXCEPT !.wrote = TRUE, !.notified = "threw"])
        ELSE Return([i EXCEPT !.wrote = TRUE,
                              !.notified = IF sent.value THEN "true" ELSE "false"],
                    Response(200, JsonHeaders, SuccessBody(i.submission.id)))

\* store.set rejected: the catch returns 500.
SetFailedAsSuccess(i) ==
    Return([i EXCEPT !.storeFailed = TRUE, !.notified = "true"],
           Response(200, JsonHeaders, SuccessBody(i.submission.id)))
SetFailed(i) == ProcessFailed([i EXCEPT !.storeFailed = TRUE])

\* await store.set(submission.id, JSON.stringify(submission)) settles.
StoreSet(h) ==
    /\ h \in DOMAIN inv
    /\ inv[h].pc = "set"
    /\ \/ /\ store' = StorePut(store, inv[h].submission.id,
                               JSONstringify(inv[h].submission))
          /\ inv' = [inv EXCEPT ![h] = AfterSet(@)]
       \/ /\ inv' = [inv EXCEPT ![h] = SetFailed(@)]
          /\ UNCHANGED store
    /\ UNCHANGED <<clock, served>>

\* GET up to its first await: store.list() is called.
Get(h) ==
    /\ CanStart(h)
    /\ inv' = [inv EXCEPT ![h] = [Started("GET", EmptyText) EXCEPT !.pc = "list"]]
    /\ served' = served + 1
    /\ UNCHANGED <<store, clock>>

\* The catch of the GET branch.
FetchFailed(i) ==
    Return([i EXCEPT !.storeFailed = TRUE],
           Response(500, CorsHeaders, ErrorBody("Failed to fetch submissions")))

\* (a, b) => new Date(b.timestamp).getTime() - new Date(a.timestamp).getTime()
CompareAscending(a, b) == getTime(a.timestamp) - getTime(b.timestamp)
Compare(a, b) == getTime(b.timestamp) - getTime(a.timestamp)

\* Array.prototype.sort with that comparator (a stable sort).
RECURSIVE Insert(_, _)
Insert(x, s) ==
    IF s = <<>> THEN <<x>>
    ELSE IF Compare(s[Len(s)], x) <= 0 THEN Append(s, x)
    ELSE Append(Insert(x, SubSeq(s, 1, Len(s) - 1)), s[Len(s)])
RECURSIVE Sort(_)
Sort(s) ==
    IF s = <<>> THEN <<>>
    ELSE Insert(s[Len(s)], Sort(SubSeq(s, 1, Len(s) - 1)))

AfterReadEarly(i) ==
    IF i.data # <<>> \/ i.keys = <<>>
    THEN Return(i, Response(200, JsonHeaders, ListBody(Sort(i.data))))
    ELSE [i EXCEPT !.pc = "read"]
\* The rest of the GET branch once Promise.all has resolved: sort, return.
\* Until then the invocation waits for the next store.get.
AfterRead(i) ==
    IF Len(i.data) = Len(i.keys)
    THEN Return(i, Response(200, JsonHeaders, ListBody(Sort(i.data))))
    ELSE [i EXCEPT !.pc = "read"]

\* What a GET returns from store s listed in order l when no write falls
\* between its reads.
ListResult(s, l) == Sort([n \in 1..Len(l) |-> JSONread(s[l[n]])])

\* const { blobs } = await store.list() settles.
StoreList(h) ==
    /\ h \in DOMAIN inv
    /\ inv[h].pc = "list"
    /\ \/ \E l \in Listings(store) :
             inv' = [inv EXCEPT ![h] = AfterRead([@ EXCEPT !.keys = l])]
       \/ inv' = [inv EXCEPT ![h] = FetchFailed(@)]
    /\ UNCHANGED <<store, clock, served>>

\* The next store.get(blob.key, { type: 'json' }) of the Promise.all settles.
StoreGet(h) ==
    /\ h \in DOMAIN inv
    /\ inv[h].pc = "read"
    /\ \/ inv' = [inv EXCEPT ![h] =
                    AfterRead([@ EXCEPT !.data =
                       Append(@, JSONread(store[inv[h].keys[Len(@) + 1]]))])]
       \/ inv' = [inv EXCEPT ![h] = FetchFailed(@)]
    /\ UNCHANGED <<store, clock, served>>

Next ==
    \/ Tick /\ UNCHANGED clients
    \/ \E h \in Invocations : Options(h) /\ UNCHANGED clients
    \/ \E h \in Invocations, m \in OtherMethods :
          MethodNotAllowed(h, m) /\ UNCHANGED clients
    \/ \E h \in Invocations, text \in CoreBodies :
          Post(h, text) /\ UNCHANGED clients
    \/ \E h \in Invocations : StoreSet(h) /\ UNCHANGED clients
    \/ \E h \in Invocations : Get(h) /\ UNCHANGED clients
    \/ \E h \in Invocations : StoreList(h) /\ UNCHANGED clients
    \/ \E h \in Invocations : StoreGet(h) /\ UNCHANGED clients

\* Concurrent invocations, a ticking clock, the core bodies.
Spec == Init /\ [][Next]_vars

NextInputs ==
    \/ \E text \in Bodies : Post("h1", text) /\ UNCHANGED clients
    \/ StoreSet("h1") /\ UNCHANGED clients
    \/ Get("h1") /\ UNCHANGED clients
    \/ StoreList("h1") /\ UNCHANGED clients
    \/ StoreGet("h1") /\ UNCHANGED clients

\* One client, every body of the input set.
InputsSpec == InitInputs /\ [][NextInputs]_vars

\* ------------------------------------------------------ the form's actions
\* What the user types into, or selects for, the fields: the required ones
\* and one optional one.
TypedContact ==
    [name |-> {<<"J">>}, email |-> {NoDotEmail, GoodEmail},
     company |-> {<<"T">>}]
TypedProject ==
    [projectType |-> {<<"S">>}, description |-> {Blank, <<"d">>},
     timeline |-> {<<"3">>}, requirements |-> {<<"r">>}]

\* handleContactInfoChange(field, value), from an input of ContactInfoStep.
handleContactInfoChange(field, value) ==
    /\ ~form.isSubmitted
    /\ form.currentStep = "contact"
    /\ form' = [form EXCEPT
                  !.formData.contactInfo[field] = value,
                  !.errors = IF HasError(@, field) THEN ClearError(@, field) ELSE @]
    /\ UNCHANGED <<service, dash, csv>>

\* handleProjectDetailsChange(field, value), from an input of
\* ProjectDetailsStep.
handleProjectDetailsChange(field, value) ==
    /\ ~form.isSubmitted
    /\ form.currentStep = "project"
    /\ form' = [form EXCEPT
                  !.formData.projectDetails[field] = value,
                  !.errors = IF HasError(@, field) THEN ClearError(@, field) ELSE @]
    /\ UNCHANGED <<service, dash, csv>>

\* handleNext, the Continue button (rendered on the first two steps).
handleNextNoCheck(f) ==
    [f EXCEPT !.currentStep = IF @ = "contact" THEN "project" ELSE "review"]
handleNextOutcome(f) ==
    IF f.currentStep = "contact"
    THEN [f EXCEPT !.errors = ContactErrors(f.formData),
                   !.currentStep = IF ContactErrors(f.formData) = NoErrors
                                   THEN "project" ELSE @]
    ELSE [f EXCEPT !.errors = ProjectErrors(f.formData),
                   !.currentStep = IF ProjectErrors(f.formData) = NoErrors
                                   THEN "review" ELSE @]
handleNext ==
    /\ ~form.isSubmitted
    /\ form.currentStep # "review"
    /\ form' = handleNextOutcome(form)
    /\ UNCHANGED <<service, dash, csv>>

\* handleBack, the Back button (disabled on the first step only).
handleBack ==
    /\ ~form.isSubmitted
    /\ form.currentStep # "contact"
    /\ form' = [form EXCEPT
                  !.currentStep = IF @ = "project" THEN "contact" ELSE "project"]
    /\ UNCHANGED <<service, dash, csv>>

\* The Submit Request button is rendered on the review step and disabled
\* while isLoading.
SubmitAlwaysEnabled(f) == ~f.isSubmitted /\ f.currentStep = "review"
SubmitEnabled(f) == ~f.isSubmitted /\ f.currentStep = "review" /\ ~f.isLoading

\* handleSubmit up to its await: setIsLoading(true) and the fetch call.  The
\* request reaches the handler, which runs to its first await, or is lost
\* on the way.
handleSubmit ==
    /\ SubmitEnabled(form)
    /\ \/ /\ Post("h1", FormText(form.formData))
          /\ form' = [form EXCEPT !.isLoading = TRUE, !.inFlight = @ + 1,
                                  !.delivered = TRUE]
       \/ /\ form' = [form EXCEPT !.isLoading = TRUE, !.inFlight = @ + 1,
                                  !.delivered = FALSE]
          /\ UNCHANGED service
    /\ UNCHANGED <<dash, csv>>

\* The fetch resolves with the handler's response: response.ok or the throw,
\* then finally.
SubmitFailed(f) ==
    [f EXCEPT !.errors = SubmitError, !.isLoading = FALSE,
              !.inFlight = @ - 1, !.delivered = FALSE]
SubmitSettledKeepLoading(f, ok) ==
    IF ok
    THEN [f EXCEPT !.isSubmitted = TRUE, !.isLoading = FALSE,
                   !.inFlight = @ - 1, !.delivered = FALSE]
    ELSE [f EXCEPT !.errors = SubmitError, !.inFlight = @ - 1,
                   !.delivered = FALSE]
SubmitSettled(f, ok) ==
    IF ok
    THEN [f EXCEPT !.isSubmitted = TRUE, !.isLoading = FALSE,
                   !.inFlight = @ - 1, !.delivered = FALSE]
    ELSE SubmitFailed(f)
SubmitResponse ==
    /\ form.inFlight > 0
    /\ form.delivered
    /\ inv["h1"].pc = "done"
    /\ form' = SubmitSettled(form, inv["h1"].resp.statusCode \in 200..299)
    /\ UNCHANGED <<service, dash, csv>>

\* The fetch rejects (a network error): the request never arrived, or the
\* response did not come back.
SubmitRejects ==
    /\ form.inFlight > 0
    /\ form' = SubmitFailed(form)
    /\ UNCHANGED <<service, dash, csv>>

\* Submit Another Request, the button of the confirmation view.
ResetKeepData(f) ==
    [f EXCEPT !.isSubmitted = FALSE, !.currentStep = "contact",
              !.formData.projectDetails = BlankFormData.projectDetails]
ResetOutcome(f) ==
    [f EXCEPT !.isSubmitted = FALSE, !.currentStep = "contact",
              !.formData = BlankFormData]
Reset ==
    /\ form.isSubmitted
    /\ form' = [ResetOutcome(form) EXCEPT
                  !.storedBefore = Cardinality(DOMAIN store)]
    /\ UNCHANGED <<service, dash, csv>>

NextForm ==
    \/ \E field \in DOMAIN TypedContact :
          \E value \in TypedContact[field] : handleContactInfoChange(field, value)
    \/ \E field \in DOMAIN TypedProject :
          \E value \in TypedProject[field] :
              handleProjectDetailsChange(field, value)
    \/ handleNext
    \/ handleBack
    \/ handleSubmit
    \/ SubmitResponse
    \/ SubmitRejects
    \/ Reset
    \/ StoreSet("h1") /\ UNCHANGED clients

\* One form and the handler that serves it.
FormSpec == InitInputs /\ [][NextForm]_vars

\* ------------------------------------------------- the dashboard's actions
\* What AdminDashboard renders: the spinner, the error with Retry, or the
\* list with the detail panel.
DashView(d) ==
    IF d.loading THEN "loading"
    ELSE IF d.error.t = "string" /\ d.error.message # "" THEN "error"
    ELSE "list"

\* useState(submission.notes || '') of a SubmissionDetail that mounts.
InitialNotes(sub) == IF Truthy(sub.notes) THEN sub.notes.s ELSE <<>>

\* The render after a state change: SubmissionDetail exists while the list
\* view has a selected submission; it keeps its notes state while it
\* exists and initialises it when it mounts.
Render(d) ==
    IF DashView(d) = "list" /\ d.selected.has
    THEN IF d.detail.mounted THEN d
         ELSE [d EXCEPT !.detail = [mounted |-> TRUE,
                                    notes |-> InitialNotes(d.selected.sub)]]
    ELSE [d EXCEPT !.detail = [mounted |-> FALSE, notes |-> <<>>]]

\* fetchSubmissions up to its await, called by the mount effect and by
\* Retry: setLoading(true) and the fetch call.  The request reaches the
\* handler, which runs to its first await, or is lost on the way.
fetchSubmissions ==
    /\ ~dash.mounted \/ DashView(dash) = "error"
    /\ \/ /\ Get("h1")
          /\ dash' = Render([dash EXCEPT !.mounted = TRUE, !.loading = TRUE,
                                         !.inFlight = @ + 1, !.delivered = TRUE])
       \/ /\ dash' = Render([dash EXCEPT !.mounted = TRUE, !.loading = TRUE,
                                         !.inFlight = @ + 1, !.delivered = FALSE])
          /\ UNCHANGED service
    /\ UNCHANGED <<form, csv>>

\* The rest of fetchSubmissions: the response (ok: setSubmissions of the
\* parsed body; otherwise the throw), the catch, and finally.
FetchSettled(d, resp) ==
    IF resp.statusCode \in 200..299
    THEN [d EXCEPT !.submissions = resp.body.list,
                   !.loading = FALSE, !.inFlight = @ - 1, !.delivered = FALSE]
    ELSE [d EXCEPT !.error = ErrorOf("Failed to fetch submissions"),
                   !.loading = FALSE, !.inFlight = @ - 1, !.delivered = FALSE]
FetchResponse ==
    /\ dash.inFlight > 0
    /\ dash.delivered
    /\ inv["h1"].pc = "done"
    /\ dash' = Render(FetchSettled(dash, inv["h1"].resp))
    /\ UNCHANGED <<service, form, csv>>

\* The fetch rejects (a network error).
FetchRejects ==
    /\ dash.inFlight > 0
    /\ dash' = Render([dash EXCEPT !.error = ErrorOf("Failed to fetch"),
                                   !.loading = FALSE, !.inFlight = @ - 1,
                                   !.delivered = FALSE])
    /\ UNCHANGED <<service, form, csv>>

\* submissions.filter(sub => filter === 'all' || sub.status === filter)
filterNone(subs, filter) == subs
filteredSubmissions(subs, filter) ==
    SelectSeq(subs, LAMBDA sub : filter = FilterAll \/ sub.status = filter)

\* The filter select.
setFilter(value) ==
    /\ DashView(dash) = "list"
    /\ dash' = Render([dash EXCEPT !.filter = value])
    /\ UNCHANGED <<service, form, csv>>

\* A click on the n-th card: onSelect(submission).
setSelectedSubmission(n) ==
    /\ DashView(dash) = "list"
    /\ n \in DOMAIN filteredSubmissions(dash.submissions, dash.filter)
    /\ dash' = Render([dash EXCEPT !.selected =
                  [has |-> TRUE,
                   sub |-> filteredSubmissions(dash.submissions, dash.filter)[n]]])
    /\ UNCHANGED <<service, form, csv>>

\* The notes textarea of SubmissionDetail.
NoteDrafts == {<<"n">>}
setNotes(value) ==
    /\ dash.detail.mounted
    /\ dash' = Render([dash EXCEPT !.detail.notes = value])
    /\ UNCHANGED <<service, form, csv>>

\* prev.map(sub => sub.id === id
\*   ? { ...sub, status, ...(notes !== undefined && { notes }) } : sub)
updateAllStatuses(subs, id, status, notes) ==
    [n \in DOMAIN subs |-> [subs[n] EXCEPT !.status = status]]
updateSubmissionStatus(subs, id, status, notes) ==
    [n \in DOMAIN subs |->
        IF subs[n].id = id
        THEN [subs[n] EXCEPT !.status = status,
                             !.notes = IF notes # Undef THEN notes ELSE @]
        ELSE subs[n]]

\* "In a real implementation, you'd have an update endpoint.  For now,
\* we'll update locally": the update calls nothing, the store stays.
storeAfterUpdateWrites(s, id, status, notes) ==
    [k \in DOMAIN s |->
        IF k = id
        THEN JSONstringify([JSONread(s[k]) EXCEPT !.status = status,
                                                  !.notes = notes])
        ELSE s[k]]
storeAfterUpdate(s, id, status, notes) == s

\* A status button of SubmissionDetail: handleStatusUpdate(status), which
\* calls onUpdateStatus(submission.id, status, notes).
handleStatusUpdate(status) ==
    /\ dash.detail.mounted
    /\ dash' = Render([dash EXCEPT !.submissions =
                  updateSubmissionStatus(@, dash.selected.sub.id, status,
                                         Str(dash.detail.notes))])
    /\ store' = storeAfterUpdate(store, dash.selected.sub.id, status,
                                 Str(dash.detail.notes))
    /\ UNCHANGED <<clock, inv, served, form, csv>>

\* ---------------------------------------------------------------- the CSV
\* The decimal digits of a number, as Date.now() and the clock fields are
\* written into the id and the timestamp.
DigitChars == <<"0", "1", "2", "3", "4", "5", "6", "7", "8", "9">>
RECURSIVE Digits(_)
Digits(n) ==
    IF n < 10 THEN <<DigitChars[n + 1]>>
    ELSE Append(Digits(n \div 10), DigitChars[(n % 10) + 1])
\* The id string `sub_${now}_${suffix}`.
IdChars(id) ==
    IF id.prefix = "sub_"
    THEN <<"s", "u", "b", "_">> \o Digits(id.time) \o <<"_">> \o Digits(id.rand)
    ELSE <<>>
\* The ISO timestamp string: seconds, a dot, three digits of milliseconds, Z.
IsoChars(ts) ==
    Digits(ts.sec) \o <<".">>
      \o (IF ts.msec < 10 THEN <<"0", "0">> ELSE IF ts.msec < 100 THEN <<"0">> ELSE <<>>)
      \o Digits(ts.msec) \o <<"Z">>

\* Array.prototype.join: the elements' strings with the separator between
\* them; undefined and null give the empty string.
ElementChars(v) == IF v.t = "string" THEN v.s ELSE <<>>
RECURSIVE join(_, _)
join(seqs, sep) ==
    IF seqs = <<>> THEN <<>>
    ELSE IF Len(seqs) = 1 THEN seqs[1]
    ELSE seqs[1] \o sep \o join(Tail(seqs), sep)

\* s.replace(/"/g, '""')
RECURSIVE replaceQuotes(_)
replaceQuotes(s) ==
    IF s = <<>> THEN <<>>
    ELSE (IF Head(s) = "\"" THEN <<"\"", "\"">> ELSE <<Head(s)>>)
            \o replaceQuotes(Tail(s))
\* `"${s.replace(/"/g, '""')}"`
QuotedBare(s) == <<"\"">> \o s \o <<"\"">>
Quoted(s) == <<"\"">> \o replaceQuotes(s) \o <<"\"">>

\* v || ''
OrEmpty(v) == IF Truthy(v) THEN v ELSE Str(<<>>)

\* The header line.
HeaderNames ==
    << <<"I", "D">>,
       <<"T", "i", "m", "e", "s", "t", "a", "m", "p">>,
       <<"N", "a", "m", "e">>,
       <<"E", "m", "a", "i", "l">>,
       <<"C", "o", "m", "p", "a", "n", "y">>,
       <<"P", "h", "o", "n", "e">>,
       <<"P", "r", "o", "j", "e", "c", "t", " ", "T", "y", "p", "e">>,
       <<"T", "i", "m", "e", "l", "i", "n", "e">>,
       <<"B", "u", "d", "g", "e", "t">>,
       <<"S", "t", "a", "t", "u", "s">>,
       <<"D", "e", "s", "c", "r", "i", "p", "t", "i", "o", "n">>,
       <<"R", "e", "q", "u", "i", "r", "e", "m", "e", "n", "t", "s">> >>
Header == join(HeaderNames, <<",">>)

\* The row of a submission throws a TypeError when the join has to convert
\* an object without a usable toString, or when description (or a present
\* requirements) has no replace method.
RowThrows(sub) ==
    \/ \E k \in {"name", "email", "company"} : ToStringThrows(sub.contactInfo[k])
    \/ ToStringThrows(OrEmpty(sub.contactInfo.phone))
    \/ \E k \in {"projectType", "timeline"} : ToStringThrows(sub.projectDetails[k])
    \/ ToStringThrows(OrEmpty(sub.projectDetails.budget))
    \/ sub.projectDetails.description.t # "string"
    \/ sub.projectDetails.requirements.t = "object"

\* [sub.id, sub.timestamp, ..., `"..."`, `"..."`].join(',')
Row(sub) ==
    join(<<IdChars(sub.id),
           IsoChars(sub.timestamp),
           ElementChars(sub.contactInfo.name),
           ElementChars(sub.contactInfo.email),
           ElementChars(sub.contactInfo.company),
           ElementChars(OrEmpty(sub.contactInfo.phone)),
           ElementChars(sub.projectDetails.projectType),
           ElementChars(sub.projectDetails.timeline),
           ElementChars(OrEmpty(sub.projectDetails.budget)),
           ElementChars(sub.status),
           Quoted(sub.projectDetails.description.s),
           Quoted(ElementChars(sub.projectDetails.requirements))>>, <<",">>)

\* csvContent of exportToCSV, and whether building it threw.
csvContent(subs, filter) ==
    LET rows == filteredSubmissions(subs, filter)
    IN  [made |-> TRUE, submissions |-> subs, filter |-> filter,
         threw |-> \E n \in DOMAIN rows : RowThrows(rows[n]),
         content |->
            IF \E n \in DOMAIN rows : RowThrows(rows[n]) THEN <<>>
            ELSE join(<<Header>> \o [n \in DOMAIN rows |-> Row(rows[n])],
                      <<"\n">>)]

\* The Export CSV button.
exportToCSV ==
    /\ DashView(dash) = "list"
    /\ csv' = csvContent(dash.submissions, dash.filter)
    /\ UNCHANGED <<service, form, dash>>

\* ---------------------------------------------- the dashboard and the site
Statuses == {StatusNew, StatusReviewed, StatusResponded}
\* The bodies other clients post while the dashboard is in use.
SiteBodies == {ValidText, ObjectCompanyText}

NextSite ==
    \/ \E text \in SiteBodies :
          ~dash.delivered /\ Post("h1", text) /\ UNCHANGED clients
    \/ StoreSet("h1") /\ UNCHANGED clients
    \/ StoreList("h1") /\ UNCHANGED clients
    \/ StoreGet("h1") /\ UNCHANGED clients
    \/ fetchSubmissions
    \/ FetchResponse
    \/ FetchRejects
    \/ \E value \in Filters : setFilter(value)
    \/ \E n \in 1..Len(dash.submissions) : setSelectedSubmission(n)
    \/ \E value \in NoteDrafts : setNotes(value)
    \/ \E status \in Statuses : handleStatusUpdate(status)

\* One dashboard, the handler that serves it, and the posts of other
\* clients, all within one millisecond.  The export is left to CsvSpec.
SiteSpec == InitInputs /\ [][NextSite]_vars

\* ------------------------------------------------------- the CSV's inputs
MaxLen == 3     \* characters in a description or requirements text
CsvAlphabet == {"a", "\"", ",", "\n"}
CsvTexts == UNION {[1..n -> CsvAlphabet] : n \in 0..MaxLen}

\* A name with a comma in it, which the handler stores as it comes.
CommaName == <<"a", ",", "b">>

\* A submission as the handler built it from the valid body at millisecond
\* now with suffix rnd, its description and requirements replaced, and as
\* the dashboard holds it after status updates (which always set notes).
CsvRecord(now, rnd, status, desc, req) ==
    [CreateSubmission(JSONparse(ValidText), now, rnd) EXCEPT
        !.status = status,
        !.notes = IF status = StatusNew THEN Undef ELSE Str(<<>>),
        !.projectDetails.description = Str(desc),
        !.projectDetails.requirements = req]
\* The lists the export is applied to, newest first: a fixed record, one
\* whose description is the text (or "d" for the empty text, which the
\* handler does not accept) and one whose requirements is the text; and a
\* list with a record whose company is an object; and a list with a record
\* whose name holds a comma.
CsvLists ==
    {<<CsvRecord(ClockStart + 1, 0, StatusResponded, <<"d">>, Undef),
       CsvRecord(ClockStart, 0, s1, IF t = <<>> THEN <<"d">> ELSE t, Undef),
       CsvRecord(ClockStart, 1, s2, <<"d">>, Str(t))>> :
          s1 \in Statuses, s2 \in {StatusNew, StatusReviewed}, t \in CsvTexts}
    \cup {<<CsvRecord(ClockStart, 0, StatusNew, <<"d">>, Undef),
            CreateSubmission(JSONparse(ObjectCompanyText), ClockStart, 1)>>}
    \cup {<<CsvRecord(ClockStart + 1, 0, StatusReviewed, <<"d">>, Undef),
            [CsvRecord(ClockStart, 0, StatusNew, <<"d">>, Undef)
                EXCEPT !.contactInfo.name = Str(CommaName)]>>}
\* The store such a list was fetched from.
StoreOf(list) ==
    [k \in {list[n].id : n \in DOMAIN list} |->
        LET n == CHOOSE n \in DOMAIN list : list[n].id = k
        IN  JSONstringify([list[n] EXCEPT !.status = StatusNew, !.notes = Undef])]

\* The dashboard after a successful fetch and some status updates.
InitCsv ==
    /\ \E list \in CsvLists :
          /\ store = StoreOf(list)
          /\ dash = [InitialDash EXCEPT !.mounted = TRUE, !.loading = FALSE,
                                        !.submissions = list]
    /\ clock = ClockStart + 1
    /\ inv = [h \in {"h1"} |-> IdleInvocation]
    /\ served = 0
    /\ form = InitialForm
    /\ csv = NoCsv

NextCsv ==
    \/ \E value \in Filters : setFilter(value)
    \/ exportToCSV

\* The filter select and the export, over the lists of CsvLists.
CsvSpec == InitCsv /\ [][NextCsv]_vars

\* --------------------------------------------------------------- vocabulary
Range(f) == {f[x] : x \in DOMAIN f}
IsPost(h) == inv[h].method = "POST"
IsGet(h) == inv[h].method = "GET"
Done(h) == inv[h].pc = "done"
Status(h) == inv[h].resp.statusCode
StoredRecords == {JSONread(store[k]) : k \in DOMAIN store}

\* A required field is missing when it is absent or the empty string.
Lacking(v) == v = Undef \/ v = Str(<<>>)
LacksRequired(o) ==
    \/ \E f \in {"name", "email", "company"} : Lacking(o.contactInfo[f])
    \/ \E f \in {"projectType", "description", "timeline"} :
          Lacking(o.projectDetails[f])
\* The body is absent or is the text of a JSON object.
ParsesToObject(text) ==
    text.kind = "empty" \/ (text.kind = "json" /\ text.v.t = "object")
\* The body has no non-empty value for some required field.
BodyLacksRequired(text) == ~ParsesToObject(text) \/ LacksRequired(JSONparse(text))
Rejected(h, code) ==
    /\ Done(h)
    /\ Status(h) = code
    /\ inv[h].resp.body.kind = "error"
    /\ inv[h].resp.body.error # ""
    /\ ~inv[h].wrote
    /\ inv[h].notified = "no"

\* C1 as stated: every POST whose body lacks a required field (absent or
\* empty) is answered 400 with an error, writes nothing to the store and
\* sends no notification.
C1_AsStated ==
    \A h \in DOMAIN inv :
        IsPost(h) /\ BodyLacksRequired(inv[h].text) => Rejected(h, 400)

\* C1 amended: a POST whose body lacks a required field is answered with an
\* error, 400 when the body is absent or parses to a JSON object and 500
\* when it is not JSON or is null, without a store write or a notification;
\* no record lacking a required field is ever in the store or in the list a
\* GET returns.
C1_MissingFieldsRejected ==
    /\ \A h \in DOMAIN inv :
          IsPost(h) /\ BodyLacksRequired(inv[h].text) =>
             Rejected(h, IF ParsesToObject(inv[h].text) THEN 400 ELSE 500)
    /\ \A r \in StoredRecords : ~LacksRequired(r)
    /\ \A h \in DOMAIN inv :
          IsGet(h) /\ Done(h) =>
             \A r \in Range(inv[h].resp.body.list) : ~LacksRequired(r)

\* A record is stored, and a POST without company has just been answered 400.
C1_Witness ==
    /\ store # << >>
    /\ \E h \in DOMAIN inv :
          /\ IsPost(h)
          /\ inv[h].text = NoCompanyText
          /\ Rejected(h, 400)
          /\ \A r \in StoredRecords : r.contactInfo.company # Undef

\* The invocation h leaves its await of store.set in this step with the
\* write done.
SetSucceeds(h) == inv[h].pc = "set" /\ inv'[h].wrote

\* C2: a POST whose six required fields are present is not rejected but
\* goes on to store.set; when that write succeeds, the handler answers
\* 200 with success true and a non-empty id; the write puts one record under
\* that id and touches no other key; the record holds the contactInfo and
\* projectDetails of the body and status 'new'; and a GET of the store as
\* it then is, in whatever order the keys are listed, returns that record.
C2_CreateStoresAndAnswers ==
    [][\A h \in DOMAIN inv :
          /\ (/\ served' # served
              /\ inv'[h] # inv[h]
              /\ inv'[h].method = "POST"
              /\ ~BodyLacksRequired(inv'[h].text)) =>
                /\ inv'[h].pc = "set"
                /\ inv'[h].now = clock
                /\ store' = store
          /\ SetSucceeds(h) =>
             LET i == inv'[h]
                 id == i.resp.body.id
                 body == JSONparse(i.text)
             IN  /\ ~BodyLacksRequired(i.text)
                 /\ i.pc = "done"
                 /\ i.resp.statusCode = 200
                 /\ i.resp.body.success
                 /\ id # NoId /\ id.prefix # ""
                 /\ DOMAIN store' = DOMAIN store \cup {id}
                 /\ \A k \in DOMAIN store : k # id => store'[k] = store[k]
                 /\ JSONread(store'[id]).id = id
                 /\ JSONread(store'[id]).contactInfo = body.contactInfo
                 /\ JSONread(store'[id]).projectDetails = body.projectDetails
                 /\ JSONread(store'[id]).status = StatusNew
                 /\ \A l \in Listings(store') :
                       JSONread(store'[id]) \in Range(ListResult(store', l))
      ]_vars

\* A POST has been answered 200 beside an older record of the store.
C2_Witness ==
    \E h \in DOMAIN inv :
        /\ IsPost(h) /\ Done(h) /\ Status(h) = 200
        /\ inv[h].resp.body.id \in DOMAIN store
        /\ JSONread(store[inv[h].resp.body.id]) = inv[h].submission
        /\ Cardinality(DOMAIN store) >= 2

IsSortedNewestFirst(list) ==
    \A m, n \in DOMAIN list :
        m < n => getTime(list[m].timestamp) >= getTime(list[n].timestamp)

\* C3: store.list() hands the handler every stored key, in any order, and
\* the list a successful GET returns holds one record for each of these keys
\* (all stored records), ordered by timestamp non-increasing.
C3_ListNewestFirst ==
    [][\A h \in DOMAIN inv :
          /\ inv[h].pc = "list" /\ inv'[h].pc = "read" =>
                /\ Range(inv'[h].keys) = DOMAIN store
                /\ Len(inv'[h].keys) = Cardinality(DOMAIN store)
          /\ inv[h].pc = "list" /\ inv'[h].pc = "done" /\ ~inv'[h].storeFailed =>
                /\ DOMAIN store = {}
                /\ inv'[h].resp.statusCode = 200
                /\ inv'[h].resp.body.list = <<>>
          /\ inv[h].pc = "read" /\ inv'[h].pc = "done" /\ ~inv'[h].storeFailed =>
                LET list == inv'[h].resp.body.list
                IN  /\ inv'[h].resp.statusCode = 200
                    /\ inv'[h].resp.body.kind = "list"
                    /\ Len(list) = Len(inv[h].keys)
                    /\ {list[n].id : n \in DOMAIN list} = Range(inv[h].keys)
                    /\ Range(list) \subseteq
                          Range(inv[h].data) \cup StoredRecords
                    /\ IsSortedNewestFirst(list)
      ]_vars

\* A GET has returned two records of different timestamps.
C3_Witness ==
    \E h \in DOMAIN inv :
        /\ IsGet(h) /\ Done(h) /\ Status(h) = 200
        /\ Len(inv[h].resp.body.list) >= 2
        /\ inv[h].resp.body.list[1].timestamp # inv[h].resp.body.list[2].timestamp

\* C4: sendEmailNotification never throws into the handler, and every POST
\* whose store write succeeded is answered 200 with success, its id still a
\* key of the store, whether the notification returned true or false.
C4_NotificationNeverFails ==
    \A h \in DOMAIN inv :
        /\ inv[h].notified # "threw"
        /\ IsPost(h) /\ inv[h].wrote =>
              /\ Done(h)
              /\ Status(h) = 200
              /\ inv[h].resp.body.success
              /\ inv[h].notified \in {"true", "false"}
              /\ inv[h].resp.body.id \in DOMAIN store

\* A notification has returned false and the POST was answered 200.
C4_Witness ==
    \E h \in DOMAIN inv :
        /\ IsPost(h) /\ inv[h].notified = "false"
        /\ Status(h) = 200
        /\ inv[h].resp.body.id \in DOMAIN store

\* C5: a store failure, in a POST or in a GET, is answered 500 with an
\* error and never 200; the failing step leaves the store as it was and the
\* invocation neither writes nor notifies; sendEmailNotification is called
\* only by an invocation whose store write has succeeded.
C5_StoreFailureFails ==
    /\ [](\A h \in DOMAIN inv :
            /\ inv[h].storeFailed =>
                  /\ Done(h)
                  /\ Status(h) = 500
                  /\ inv[h].resp.body.kind = "error"
                  /\ ~inv[h].wrote
                  /\ inv[h].notified = "no"
            /\ inv[h].notified # "no" => inv[h].wrote
            /\ inv[h].pc = "set" => ~inv[h].wrote /\ inv[h].notified = "no")
    /\ [][\A h \in DOMAIN inv :
            ~inv[h].storeFailed /\ inv'[h].storeFailed => store' = store]_vars

\* The store write of a valid POST has failed beside an earlier record.
C5_Witness ==
    \E h \in DOMAIN inv :
        /\ IsPost(h) /\ inv[h].storeFailed
        /\ Status(h) = 500
        /\ store # << >>
        /\ inv[h].submission.id \notin DOMAIN store

\* The invocation has built a submission: it awaits store.set or has left it.
HasSubmission(h) ==
    IsPost(h) /\ (inv[h].pc = "set" \/ inv[h].wrote \/ inv[h].storeFailed)
Succeeded(h) == IsPost(h) /\ Done(h) /\ Status(h) = 200

\* C6 as stated: any two successful POST requests receive distinct ids, and
\* no create overwrites a record of the store.
C6_AsStated ==
    \A g, h \in DOMAIN inv :
        g # h /\ Succeeded(g) /\ Succeeded(h) =>
           inv[g].resp.body.id # inv[h].resp.body.id

\* C6 amended: two POST requests receive the same id exactly when they read
\* the same millisecond and drew the same random suffix, and an id is a key
\* of the store only if a request with that millisecond and suffix can have
\* written it; the write of a request overwrites a record only under that id.
C6_IdsDifferUnlessSameDraw ==
    /\ \A g, h \in DOMAIN inv :
          HasSubmission(g) /\ HasSubmission(h) =>
             (inv[g].submission.id = inv[h].submission.id
                <=> inv[g].now = inv[h].now /\ inv[g].rnd = inv[h].rnd)
    /\ \A h \in DOMAIN inv, k \in DOMAIN store :
          HasSubmission(h) =>
             (k = inv[h].submission.id
                <=> k.time = inv[h].now /\ k.rand = inv[h].rnd)
    /\ \A h \in DOMAIN inv :
          Succeeded(h) =>
             /\ inv[h].resp.body.id = inv[h].submission.id
             /\ inv[h].resp.body.id \in DOMAIN store

\* Two POST requests of the same millisecond drew the same suffix: both were
\* answered 200 with the same id, and the store holds one record for them.
C6_Witness ==
    \E g, h \in DOMAIN inv :
        /\ g # h /\ Succeeded(g) /\ Succeeded(h)
        /\ inv[g].now = inv[h].now /\ inv[g].rnd = inv[h].rnd
        /\ inv[g].resp.body.id = inv[h].resp.body.id
        /\ inv[g].text # inv[h].text
        /\ Cardinality(DOMAIN store) = 1

\* An email value with an '@' and a '.' somewhere after it.
EmailWellFormed(v) ==
    /\ v.t = "string"
    /\ \E m, n \in DOMAIN v.s : m < n /\ v.s[m] = "@" /\ v.s[n] = "."
\* A string of whitespace only.
IsBlank(v) ==
    v.t = "string" /\ v.s # <<>> /\ \A n \in DOMAIN v.s : v.s[n] = " "
HasBlankRequired(o) ==
    \/ \E f \in {"name", "email", "company"} : IsBlank(o.contactInfo[f])
    \/ \E f \in {"projectType", "description", "timeline"} :
          IsBlank(o.projectDetails[f])

\* C7: a POST whose email is a string with no '@' or no '.' after the '@'
\* (a@b, ab.com) is rejected (400) without a store write, and a POST whose
\* email has both, with the other required fields present, is not rejected.
\* Empty and whitespace-only emails are left to C1 and C8.
C7_EmailFormatValidated ==
    \A h \in DOMAIN inv :
        IsPost(h) /\ ParsesToObject(inv[h].text) =>
           LET body == JSONparse(inv[h].text)
               email == body.contactInfo.email
           IN  /\ (/\ email.t = "string"
                   /\ ~Lacking(email) /\ ~IsBlank(email)
                   /\ ~EmailWellFormed(email)) => Rejected(h, 400)
               /\ (/\ EmailWellFormed(body.contactInfo.email)
                   /\ ~LacksRequired(body)
                   /\ Done(h)) => Status(h) # 400

\* C8: a POST in which a required field is whitespace only is rejected with
\* 400 and performs no store write.
C8_BlankFieldsRejected ==
    \A h \in DOMAIN inv :
        (/\ IsPost(h)
         /\ ParsesToObject(inv[h].text)
         /\ HasBlankRequired(JSONparse(inv[h].text))) => Rejected(h, 400)

\* Two bodies that differ at most in their top-level id, timestamp, status
\* and notes.
SameButTopLevel(t1, t2) ==
    /\ ParsesToObject(t1) /\ ParsesToObject(t2)
    /\ JSONparse(t1).contactInfo = JSONparse(t2).contactInfo
    /\ JSONparse(t1).projectDetails = JSONparse(t2).projectDetails

\* C9: the submission a POST builds and stores takes its id and timestamp
\* from the service's clock and random draw, has status 'new' and no notes,
\* and two POST requests that differ only in client-supplied top-level id,
\* timestamp, status or notes build the same submission from the same clock
\* reading and draw.
C9_ServiceAssignsIdTimestampStatus ==
    /\ \A h \in DOMAIN inv :
          HasSubmission(h) =>
             /\ inv[h].submission.id = MakeId(inv[h].now, inv[h].rnd)
             /\ inv[h].submission.timestamp = toISOString(inv[h].now)
             /\ inv[h].submission.status = StatusNew
             /\ inv[h].submission.notes = Undef
    /\ \A g, h \in DOMAIN inv :
          (/\ HasSubmission(g) /\ HasSubmission(h)
           /\ SameButTopLevel(inv[g].text, inv[h].text)
           /\ inv[g].now = inv[h].now /\ inv[g].rnd = inv[h].rnd)
             => inv[g].submission = inv[h].submission
    /\ \A r \in StoredRecords :
          /\ r.status = StatusNew
          /\ r.notes = Undef
          /\ r.id.prefix = "sub_"
          /\ getTime(r.timestamp) = r.id.time
          /\ r.id.time <= clock

\* The forged body and the plain body, same millisecond and suffix, have
\* both been written.
C9_Witness ==
    \E g, h \in DOMAIN inv :
        /\ inv[g].text = ValidText /\ inv[h].text = ForgedText
        /\ inv[g].wrote /\ inv[h].wrote
        /\ inv[g].now = inv[h].now /\ inv[g].rnd = inv[h].rnd
        /\ inv[g].submission = inv[h].submission
        /\ JSONread(store[inv[h].submission.id]) = inv[h].submission

\* C10: OPTIONS is answered 200 with an empty body and any method other than
\* OPTIONS, GET and POST is answered 405 with an error, in the step that
\* receives the event, which leaves the store as it was and calls neither
\* the store nor sendEmailNotification; every response carries the three
\* CORS headers.
C10_MethodDispatch ==
    /\ [](\A h \in DOMAIN inv :
            /\ inv[h].method = "OPTIONS" =>
                  /\ Done(h) /\ Status(h) = 200
                  /\ inv[h].resp.body = EmptyBody
            /\ inv[h].method \notin {"", "OPTIONS", "GET", "POST"} =>
                  /\ Done(h) /\ Status(h) = 405
                  /\ inv[h].resp.body.kind = "error"
                  /\ inv[h].resp.body.error # ""
            /\ inv[h].method \notin {"GET", "POST"} =>
                  /\ ~inv[h].wrote /\ ~inv[h].storeFailed
                  /\ inv[h].notified = "no"
            /\ Done(h) =>
                  /\ <<"Access-Control-Allow-Origin", "*">> \in inv[h].resp.headers
                  /\ <<"Access-Control-Allow-Headers", "Content-Type">>
                        \in inv[h].resp.headers
                  /\ <<"Access-Control-Allow-Methods", "GET, POST, OPTIONS">>
                        \in inv[h].resp.headers)
    /\ [][\A h \in DOMAIN inv :
            (/\ served' # served
             /\ inv'[h] # inv[h]
             /\ inv'[h].method \notin {"GET", "POST"}) => store' = store]_vars

\* OPTIONS and a DELETE have been answered while the store holds a record.
C10_Witness ==
    /\ store # << >>
    /\ \E g, h \in DOMAIN inv :
          /\ inv[g].method = "OPTIONS" /\ Status(g) = 200
          /\ inv[h].method = "DELETE" /\ Status(h) = 405

\* A complete record: an id with its prefix, the timestamp of the id's
\* millisecond, a status of the three, the six required fields present.
Complete(r) ==
    /\ r.id # NoId /\ r.id.prefix = "sub_"
    /\ r.timestamp = toISOString(r.id.time)
    /\ r.status \in {StatusNew, StatusReviewed, StatusResponded}
    /\ \A f \in {"name", "email", "company"} : Truthy(r.contactInfo[f])
    /\ \A f \in {"projectType", "description", "timeline"} :
          Truthy(r.projectDetails[f])

\* C12: every record of the store is complete and is stored under its own
\* id; every record a GET has read or returned is complete; a POST that was
\* rejected or whose write failed has written nothing.
C12_OnlyCompleteRecords ==
    /\ \A k \in DOMAIN store :
          Complete(JSONread(store[k])) /\ JSONread(store[k]).id = k
    /\ \A h \in DOMAIN inv :
          /\ \A r \in Range(inv[h].data) : Complete(r)
          /\ IsGet(h) /\ Done(h) =>
                \A r \in Range(inv[h].resp.body.list) : Complete(r)
          /\ IsPost(h) /\ Done(h) /\ Status(h) # 200 => ~inv[h].wrote

\* A GET returns a record while one POST has been rejected for its missing
\* company and none of the stored records is its.
C12_Witness ==
    \E g, h \in DOMAIN inv :
        /\ IsGet(g) /\ Done(g) /\ Status(g) = 200
        /\ inv[g].resp.body.list # <<>>
        /\ IsPost(h) /\ inv[h].text = NoCompanyText /\ Rejected(h, 400)
        /\ \A r \in StoredRecords : Complete(r)

\* C20 as stated: whenever two POST requests have both been answered 200,
\* the records of both are in the store.
C20_AsStated ==
    \A g, h \in DOMAIN inv :
        g # h /\ Succeeded(g) /\ Succeeded(h) =>
           /\ inv[g].submission \in StoredRecords
           /\ inv[h].submission \in StoredRecords

\* C20 amended: the write of one POST leaves the record another POST has
\* written as it is unless both drew the same id, and then the later write
\* replaces the earlier record; each response reports the id of its own
\* submission, which is a key of the store; a GET interleaved with the
\* writes reads, for every key listed, a complete record stored under that
\* key, and returns as many records as keys were listed.
C20_WritesDoNotInterfere ==
    /\ [](\A h \in DOMAIN inv :
            /\ Succeeded(h) =>
                  /\ inv[h].resp.body.id = inv[h].submission.id
                  /\ inv[h].resp.body.id \in DOMAIN store
            /\ \A n \in DOMAIN inv[h].data :
                  /\ Complete(inv[h].data[n])
                  /\ inv[h].data[n].id = inv[h].keys[n]
            /\ IsGet(h) /\ Done(h) /\ Status(h) = 200 =>
                  \A r \in Range(inv[h].resp.body.list) :
                      Complete(r) /\ r.id \in DOMAIN store)
    /\ [][\A g, h \in DOMAIN inv :
            (/\ g # h
             /\ SetSucceeds(h)
             /\ inv[g].wrote
             /\ JSONread(store[inv[g].submission.id]) = inv[g].submission) =>
                /\ JSONread(store'[inv[h].submission.id]) = inv[h].submission
                /\ (inv[g].submission.id # inv[h].submission.id =>
                      JSONread(store'[inv[g].submission.id]) = inv[g].submission)
          ]_vars
    /\ [][\A h \in DOMAIN inv :
            inv[h].pc = "read" /\ inv'[h].pc = "done" /\ ~inv'[h].storeFailed =>
               Len(inv'[h].resp.body.list) = Len(inv[h].keys)]_vars

\* Two POST requests with different ids have both been written while a GET
\* that listed one key before the second write has returned.
C20_Witness ==
    /\ Cardinality(DOMAIN store) = 2
    /\ \E g, h \in DOMAIN inv :
          /\ IsPost(g) /\ Succeeded(g)
          /\ IsGet(h) /\ Done(h) /\ Status(h) = 200
          /\ Len(inv[h].resp.body.list) = 1

\* ------------------------------------------------------- the form's claims
\* What the client checks ask of the fields, said without the code's words.
NonBlank(s) == \E n \in DOMAIN s : s[n] \notin Whitespace
EmailShape(s) ==
    /\ \A n \in DOMAIN s : s[n] \notin Whitespace
    /\ Cardinality({n \in DOMAIN s : s[n] = "@"}) = 1
    /\ \E i, j \in DOMAIN s :
          s[i] = "@" /\ s[j] = "." /\ 1 < i /\ i + 1 < j /\ j < Len(s)
ContactFieldsValid(fd) ==
    /\ NonBlank(fd.contactInfo.name)
    /\ EmailShape(fd.contactInfo.email)
    /\ NonBlank(fd.contactInfo.company)
ProjectFieldsValid(fd) ==
    /\ fd.projectDetails.projectType # <<>>
    /\ NonBlank(fd.projectDetails.description)
    /\ fd.projectDetails.timeline # <<>>
\* The body of a create call passes the client checks.
TextPassesClientChecks(text) ==
    LET ci == JSONparse(text).contactInfo
        pd == JSONparse(text).projectDetails
    IN  /\ \A f \in {"name", "email", "company"} : ci[f].t = "string"
        /\ \A f \in {"projectType", "description", "timeline"} :
              pd[f].t = "string"
        /\ NonBlank(ci.name.s) /\ EmailShape(ci.email.s) /\ NonBlank(ci.company.s)
        /\ pd.projectType.s # <<>>
        /\ NonBlank(pd.description.s)
        /\ pd.timeline.s # <<>>

\* C13: the step is 'project' only with valid contact fields and 'review'
\* only with valid contact and project fields; the form moves from contact
\* to project only in a step that starts with valid contact fields and from
\* project to review only in one that starts with valid project fields; the
\* body of every create call passes the client checks.
C13_WizardGating ==
    /\ [](/\ form.currentStep = "project" => ContactFieldsValid(form.formData)
          /\ form.currentStep = "review" =>
                /\ ContactFieldsValid(form.formData)
                /\ ProjectFieldsValid(form.formData)
          /\ inv["h1"].method = "POST" => TextPassesClientChecks(inv["h1"].text))
    /\ [][/\ form.currentStep = "contact" /\ form'.currentStep = "project" =>
                ContactFieldsValid(form.formData) /\ form'.formData = form.formData
          /\ form.currentStep = "project" /\ form'.currentStep = "review" =>
                ProjectFieldsValid(form.formData) /\ form'.formData = form.formData
          /\ form.currentStep = "contact" => form'.currentStep # "review"
          /\ served' # served =>
                /\ form.currentStep = "review"
                /\ inv'["h1"].text = FormText(form.formData)
         ]_vars

\* After a create call the user went back, blanked the description, and
\* Continue has refused to leave the project step.
C13_Witness ==
    /\ inv["h1"].method = "POST"
    /\ form.currentStep = "project"
    /\ form.formData.projectDetails.description = Blank
    /\ HasError(form.errors, "description")
    /\ ContactFieldsValid(form.formData)

\* A request of the form settles in this step.
Settles == form'.inFlight < form.inFlight
\* The response the settling fetch may resolve with is a 2xx.
ResponseOk ==
    /\ form.delivered
    /\ inv["h1"].pc = "done"
    /\ inv["h1"].resp.statusCode \in 200..299

\* C14: the step in which a create request settles leaves isLoading false,
\* formData and currentStep as they were; when the request settles as a
\* failure (no 2xx response has come, or the fetch rejected) the form shows
\* the submit error and stays un-submitted.  Whenever no request is in
\* flight isLoading is false, so on the review step Submit is enabled.
C14_FailedSubmitKeepsForm ==
    /\ [](/\ form.inFlight = 0 => ~form.isLoading
          /\ (/\ ~form.isLoading /\ ~form.isSubmitted
              /\ form.currentStep = "review") => SubmitEnabled(form))
    /\ [][Settles =>
            /\ ~form'.isLoading
            /\ form'.formData = form.formData
            /\ form'.currentStep = form.currentStep
            /\ \/ /\ ResponseOk
                  /\ form'.isSubmitted
                  /\ form'.errors = form.errors
               \/ /\ ~form'.isSubmitted
                  /\ HasError(form'.errors, "submit")
            /\ ~ResponseOk => ~form'.isSubmitted /\ HasError(form'.errors, "submit")
         ]_vars

\* The store write of the create failed, the handler answered 500, and the
\* form shows the submit error on the review step, its data kept, with
\* Submit enabled again.
C14_Witness ==
    /\ inv["h1"].storeFailed /\ Status("h1") = 500
    /\ HasError(form.errors, "submit")
    /\ ~form.isSubmitted /\ ~form.isLoading /\ form.inFlight = 0
    /\ form.currentStep = "review"
    /\ FormText(form.formData) = inv["h1"].text
    /\ SubmitEnabled(form)

\* C15: a create request that settles without the submit error has got a
\* 2xx response and sets isSubmitted, and nothing else sets isSubmitted;
\* the step that leaves the confirmation view (Submit Another Request) sets
\* isSubmitted false, currentStep 'contact' and every formData field to the
\* empty string, and nothing else leaves the confirmation view.
C15_SuccessThenReset ==
    /\ [][/\ (Settles /\ ~HasError(form'.errors, "submit")) =>
                ResponseOk /\ form'.isSubmitted
          /\ (~form.isSubmitted /\ form'.isSubmitted) => Settles /\ ResponseOk
          /\ (form.isSubmitted /\ form' # form) =>
                /\ ~form'.isSubmitted
                /\ form'.currentStep = "contact"
                /\ \A g \in DOMAIN form'.formData :
                      \A k \in DOMAIN form'.formData[g] :
                          form'.formData[g][k] = <<>>
         ]_vars
    /\ [](form.isSubmitted => form.inFlight = 0 /\ ~form.isLoading)

\* The form is blank on its first step again after a create that stored
\* the requirements the user had typed.
C15_Witness ==
    /\ ~form.isSubmitted /\ form.currentStep = "contact"
    /\ form.formData = BlankFormData
    /\ form.storedBefore >= 1
    /\ \E r \in StoredRecords : r.projectDetails.requirements = Str(<<"r">>)

\* The records stored since the form was last blank.
StoredSinceBlank == Cardinality(DOMAIN store) - form.storedBefore

\* C16 as stated: at most one create request is in flight, and an accepted
\* form has yielded at most one stored record.
C16_AsStated ==
    /\ form.inFlight <= 1
    /\ form.isSubmitted => StoredSinceBlank <= 1

\* C16 amended: Submit is disabled exactly while a request is in flight, so
\* at most one create request is in flight; every press of Submit issues
\* one create call and only a press of Submit issues one; each create call
\* stores at most one record.
C16_OneCreatePerSubmit ==
    /\ [](/\ form.inFlight <= 1
          /\ form.isLoading <=> form.inFlight = 1)
    /\ [][/\ served' # served =>
                /\ served' = served + 1
                /\ form'.inFlight = form.inFlight + 1
          /\ form'.inFlight > form.inFlight =>
                /\ ~form.isLoading /\ form'.isLoading
                /\ form.currentStep = "review"
                /\ form'.inFlight = form.inFlight + 1
                /\ served' <= served + 1
          /\ Cardinality(DOMAIN store') <= Cardinality(DOMAIN store) + 1
          /\ store' # store => inv["h1"].pc = "set" /\ inv'["h1"].wrote
         ]_vars

\* The response of a stored create was lost, the user pressed Submit again,
\* and the accepted form has two records in the store.
C16_Witness ==
    /\ form.isSubmitted
    /\ StoredSinceBlank = 2
    /\ \A r \in StoredRecords :
          r.contactInfo = JSONparse(FormText(form.formData)).contactInfo

\* C24: the submit error is cleared when a create succeeds (the form
\* becomes submitted) and when the form is reset, after which the blank
\* step-one form shows no error.
C24_NoStaleSubmitError ==
    [][/\ (~form.isSubmitted /\ form'.isSubmitted)
             => ~HasError(form'.errors, "submit")
       /\ (form.isSubmitted /\ ~form'.isSubmitted)
             => /\ form'.formData = BlankFormData
                /\ form'.currentStep = "contact"
                /\ ~HasError(form'.errors, "submit")]_vars

\* --------------------------------------------------- the dashboard's claims
\* The ids of a list, and the record of a list with a given id.
IdsOf(list) == {list[n].id : n \in DOMAIN list}
\* A step in which the staff presses a status button for a record shown in
\* the detail panel.
StaffUpdates(id) == dash.detail.mounted /\ dash.selected.sub.id = id

C17_StatusUpdatesAreLocal ==
    /\ [](\A s \in Statuses, m \in DOMAIN dash.submissions :
            LET before == dash.submissions
                id == before[m].id
                after == updateSubmissionStatus(before, id, s, Str(<<"n">>))
            IN  /\ Len(after) = Len(before)
                /\ \A n \in DOMAIN before :
                      IF before[n].id = id
                      THEN /\ after[n].status = s
                           /\ after[n].notes = Str(<<"n">>)
                           /\ [after[n] EXCEPT !.status = StatusNew, !.notes = Undef]
                                = [before[n] EXCEPT !.status = StatusNew,
                                                    !.notes = Undef]
                      ELSE after[n] = before[n])
    /\ [][dash'.submissions # dash.submissions =>
            \/ dash'.inFlight < dash.inFlight
            \/ /\ dash.detail.mounted
               /\ Len(dash'.submissions) = Len(dash.submissions)
               /\ \E s \in Statuses :
                     \A n \in DOMAIN dash.submissions :
                        IF dash.submissions[n].id = dash.selected.sub.id
                        THEN dash'.submissions[n] =
                                [dash.submissions[n] EXCEPT
                                    !.status = s,
                                    !.notes = Str(dash.detail.notes)]
                        ELSE dash'.submissions[n] = dash.submissions[n]
         ]_vars
    /\ [][\A m \in DOMAIN dash.submissions, n \in DOMAIN dash'.submissions :
            (/\ dash.submissions[m].id = dash'.submissions[n].id
             /\ dash.submissions[m].status # dash'.submissions[n].status) =>
                /\ StaffUpdates(dash.submissions[m].id)
                /\ dash'.inFlight = dash.inFlight
                /\ store' = store
         ]_vars

\* Of two fetched records one has been moved to 'responded' and the other,
\* after an update, is back at 'new' with the notes typed for it.
C17_Witness ==
    \E m, n \in DOMAIN dash.submissions :
        /\ dash.submissions[m].status = StatusResponded
        /\ dash.submissions[n].status = StatusNew
        /\ dash.submissions[n].notes = Str(<<"n">>)
        /\ dash.selected.sub.id = dash.submissions[n].id
        /\ dash.selected.sub.status = StatusReviewed

\* The fetch of fetchSubmissions settles with a successful response: the
\* handler's answer is a 2xx and the dashboard takes its list.
FetchSucceeds ==
    /\ dash.inFlight > 0 /\ dash'.inFlight = dash.inFlight - 1
    /\ dash.delivered /\ inv["h1"].pc = "done"
    /\ inv["h1"].resp.statusCode \in 200..299
    /\ dash'.submissions = inv["h1"].resp.body.list

\* C21: when the fetch started by Retry (the error view was showing, so
\* error is set) receives a successful response, the dashboard leaves the
\* error view and shows the fetched submissions.
C21_RetryRecovers ==
    [][(FetchSucceeds /\ dash.error # NoError) =>
          /\ DashView(dash') = "list"
          /\ dash'.submissions = inv["h1"].resp.body.list]_vars

\* C22: whenever a submission is selected, the record the detail panel
\* shows (selectedSubmission) equals the record with the same id in the
\* submissions list, status and notes included.
C22_DetailMatchesList ==
    dash.selected.has =>
       \A n \in DOMAIN dash.submissions :
          dash.submissions[n].id = dash.selected.sub.id =>
             dash.submissions[n] = dash.selected.sub

\* The notes a submission carries, as text (none: the empty text).
NotesOf(sub) == IF sub.notes.t = "string" THEN sub.notes.s ELSE <<>>

\* C23: selecting a different submission resets the notes draft of the
\* detail panel to that submission's own notes, and a status update writes
\* the draft to the selected submission only; so notes typed while X was
\* selected are never written to another submission Y.
C23_NotesStayWithSubmission ==
    [][/\ (/\ dash.selected.has /\ dash'.selected.has
           /\ dash'.selected.sub.id # dash.selected.sub.id)
          => dash'.detail.notes = NotesOf(dash'.selected.sub)
       /\ \A n \in DOMAIN dash.submissions :
             (/\ dash'.submissions # dash.submissions
              /\ DOMAIN dash'.submissions = DOMAIN dash.submissions
              /\ dash'.submissions[n].notes # dash.submissions[n].notes)
             => /\ dash.selected.has
                /\ dash.submissions[n].id = dash.selected.sub.id
                /\ dash'.submissions[n].notes = Str(dash.detail.notes)]_vars

\* ---------------------------------------------------------- the CSV's claims
\* Reading a CSV text: the rows and their raw fields, split at the commas
\* and line breaks that are outside double quotes.
\* FieldEnd is the position of the separator that ends the field being read
\* at j (one past the end of the text when none does).
RECURSIVE FieldEnd(_, _, _)
FieldEnd(s, j, inQuotes) ==
    IF j > Len(s) THEN j
    ELSE IF s[j] = "\"" THEN FieldEnd(s, j + 1, ~inQuotes)
    ELSE IF ~inQuotes /\ s[j] \in {",", "\n"} THEN j
    ELSE FieldEnd(s, j + 1, inQuotes)
RECURSIVE RowFrom(_, _)
RowFrom(s, i) ==
    LET e == FieldEnd(s, i, FALSE)
        field == SubSeq(s, i, e - 1)
    IN  IF e > Len(s) THEN [fields |-> <<field>>, next |-> e + 1]
        ELSE IF s[e] = "\n" THEN [fields |-> <<field>>, next |-> e + 1]
        ELSE LET rest == RowFrom(s, e + 1)
             IN  [fields |-> <<field>> \o rest.fields, next |-> rest.next]
RECURSIVE RowsFrom(_, _)
RowsFrom(s, i) ==
    LET row == RowFrom(s, i)
    IN  IF row.next > Len(s) + 1 THEN <<row.fields>>
        ELSE <<row.fields>> \o RowsFrom(s, row.next)
RawRows(s) == RowsFrom(s, 1)

\* Reversing the double-quote escaping of a raw field: a field in quotes
\* loses them and each doubled quote inside becomes one.
RECURSIVE Undouble(_)
Undouble(s) ==
    IF s = <<>> THEN <<>>
    ELSE IF Len(s) >= 2 /\ s[1] = "\"" /\ s[2] = "\""
    THEN <<"\"">> \o Undouble(SubSeq(s, 3, Len(s)))
    ELSE <<s[1]>> \o Undouble(Tail(s))
Unescape(raw) ==
    IF Len(raw) >= 2 /\ raw[1] = "\"" /\ raw[Len(raw)] = "\""
    THEN Undouble(SubSeq(raw, 2, Len(raw) - 1))
    ELSE raw
ParseCsv(s) ==
    LET rows == RawRows(s)
    IN  [r \in DOMAIN rows |-> [c \in DOMAIN rows[r] |-> Unescape(rows[r][c])]]

\* The text of a field value: a string's characters, nothing for an absent
\* or empty value.
TextOf(v) == IF v.t = "string" THEN v.s ELSE <<>>
\* The twelve values of a submission in the order of the header.
ValuesOf(sub) ==
    <<IdChars(sub.id), IsoChars(sub.timestamp),
      TextOf(sub.contactInfo.name), TextOf(sub.contactInfo.email),
      TextOf(sub.contactInfo.company), TextOf(sub.contactInfo.phone),
      TextOf(sub.projectDetails.projectType), TextOf(sub.projectDetails.timeline),
      TextOf(sub.projectDetails.budget), TextOf(sub.status),
      TextOf(sub.projectDetails.description),
      TextOf(sub.projectDetails.requirements)>>
\* The values written without quotes hold no comma, quote or line break.
PlainValues(sub) ==
    \A c \in 1..10 : \A n \in DOMAIN ValuesOf(sub)[c] :
        ValuesOf(sub)[c][n] \notin {",", "\"", "\n"}
\* Every value is a string or absent.
AllStrings(sub) ==
    /\ \A k \in DOMAIN sub.contactInfo : k # "t" => sub.contactInfo[k].t # "object"
    /\ \A k \in DOMAIN sub.projectDetails :
          k # "t" => sub.projectDetails[k].t # "object"

\* The positions of the exported list that pass the filter of the export,
\* and the row of the file in which the n-th submission is written.
Passing == {n \in DOMAIN csv.submissions :
              csv.filter = FilterAll \/ csv.submissions[n].status = csv.filter}
RowOf(n) == 1 + Cardinality({m \in Passing : m <= n})

\* C18: the file an export writes reads, under the CSV rules, as the header
\* row with its twelve names followed by one row for each submission that
\* passes the filter, in list order, beginning with that submission's id;
\* a row whose unquoted values hold no separator reads as the twelve values
\* of its submission in the order of the header.  No row is written for a
\* submission the filter excludes.  (An export throws, and writes nothing,
\* only when a passing submission has a value that is not a string.)
C18_ExportRowsAndColumns ==
    csv.made =>
       IF csv.threw
       THEN /\ csv.content = <<>>
            /\ \E n \in Passing : ~AllStrings(csv.submissions[n])
       ELSE LET rows == ParseCsv(csv.content)
            IN  /\ \A n \in Passing : AllStrings(csv.submissions[n])
                /\ Len(rows) = 1 + Cardinality(Passing)
                /\ rows[1] = HeaderNames
                /\ \A n \in Passing :
                      /\ rows[RowOf(n)][1] = IdChars(csv.submissions[n].id)
                      /\ PlainValues(csv.submissions[n]) =>
                            rows[RowOf(n)] = ValuesOf(csv.submissions[n])

\* An export under the filter 'reviewed' has written two of three
\* submissions, one of them with a line break in its description.
C18_Witness ==
    /\ csv.made /\ ~csv.threw
    /\ csv.filter = StatusReviewed
    /\ Len(csv.submissions) = 3
    /\ Cardinality(Passing) = 2
    /\ Len(RawRows(csv.content)) = 3
    /\ \E n \in Passing :
          \E c \in DOMAIN csv.submissions[n].projectDetails.description.s :
              csv.submissions[n].projectDetails.description.s[c] = "\n"

\* The raw field is the text in double quotes with each quote of the text
\* doubled: character n of the text stands after the opening quote and the
\* doubles of the quotes before it, and is followed by a second quote when
\* it is a quote.
QuotesBefore(s, n) == Cardinality({m \in 1..(n - 1) : s[m] = "\""})
WrappedDoubled(raw, s) ==
    /\ Len(raw) = Len(s) + 2 + QuotesBefore(s, Len(s) + 1)
    /\ raw[1] = "\"" /\ raw[Len(raw)] = "\""
    /\ \A n \in DOMAIN s :
          /\ raw[1 + n + QuotesBefore(s, n)] = s[n]
          /\ s[n] = "\"" => raw[2 + n + QuotesBefore(s, n)] = "\""

\* C19: in every exported row the description field and the requirements
\* field are the text (the empty text for absent requirements) wrapped in
\* double quotes with each quote inside doubled, and reversing the
\* double-quote escaping on the field gives the text back.
C19_QuoteRoundTrip ==
    csv.made /\ ~csv.threw =>
       LET rows == RawRows(csv.content)
       IN  \A n \in Passing :
          LET raw == rows[RowOf(n)]
              pd == csv.submissions[n].projectDetails
          IN  /\ Len(raw) >= 12
              /\ WrappedDoubled(raw[Len(raw) - 1], TextOf(pd.description))
              /\ Unescape(raw[Len(raw) - 1]) = TextOf(pd.description)
              /\ WrappedDoubled(raw[Len(raw)], TextOf(pd.requirements))
              /\ Unescape(raw[Len(raw)]) = TextOf(pd.requirements)

\* An export has written a description and a requirements text made of a
\* quote, a comma and a line break.
C19_Witness ==
    /\ csv.made /\ ~csv.threw
    /\ csv.filter = FilterAll
    /\ \E m, n \in Passing :
          /\ csv.submissions[m].projectDetails.description
                = Str(<<"\"", ",", "\n">>)
          /\ csv.submissions[n].projectDetails.requirements
                = Str(<<"\"", ",", "\n">>)

\* C25: every row of an export, whatever its submission's field contents
\* (commas, quotes or line breaks in the unquoted columns included), reads
\* under the CSV rules as exactly twelve fields, equal to the submission's
\* values in the order of the header.
C25_RowsWellFormed ==
    csv.made /\ ~csv.threw =>
       LET rows == ParseCsv(csv.content)
       IN  \A n \in Passing :
              /\ RowOf(n) \in DOMAIN rows
              /\ Len(rows[RowOf(n)]) = 12
              /\ rows[RowOf(n)] = ValuesOf(csv.submissions[n])

====
